---- MODULE Spec2Model ----
(***************************************************************************)
(* Model of ArticleGenerator1.py: a Streamlit page that keeps a PromptSet  *)
(* in the session state, persists it as JSON in agent_task_config.json,    *)
(* and runs a probe + three-task crew on an uploaded transcript.           *)
(*                                                                         *)
(* A Python str is a sequence of text units: a unit is either a chunk of   *)
(* ordinary characters or one of the two characters json escapes, the      *)
(* quote and the backslash.  The file is the sequence of lexical units     *)
(* json.dump writes; a file offset counts units.  Every user interaction   *)
(* re-runs the script from line 1, so every action of a session starts     *)
(* with load_config() and the form loops.                                  *)
(***************************************************************************)
EXTENDS Integers, Sequences, FiniteSets, TLC

VARIABLES
    file,           \* agent_task_config.json: [exists, data]
    session_state,  \* st.session_state of each session: <<>> or [prompts |-> p]
    uploaded_file,  \* the file_uploader widget of each session
    handle,         \* the file object f of save_config while it is open
    phase,          \* where each session's script is: Idle, Saving, ...
    locals,         \* transcripts and temperature of the running invocation
    shown,          \* what the page displays after the session's last run
    netlog,         \* outbound calls of the session's last invocation
    steps           \* user interactions so far (Upload, Edit, Save, Generate)

vars == <<file, session_state, uploaded_file, handle, phase, locals, shown,
          netlog, steps>>

(* Bound of the model: the number of user interactions explored *)
MaxSteps == 4

Sessions == {"s1", "s2"}

(***************************************************************************)
(* Text and JSON                                                           *)
(***************************************************************************)
Q == "\""
BS == "\\"

AgentKeys == <<"planner", "writer", "editor">>
FieldKeys == <<"role", "goal", "backstory">>
TaskKeys == <<"plan", "write", "edit">>
FourKeys == {"planner", "writer", "editor", "tasks"}

(* dict iteration order: the order the literal of lines 54-61 inserts *)
KeyOrder == AgentKeys \o <<"tasks">> \o FieldKeys \o TaskKeys

RECURSIVE SelectKeys(_, _)
SelectKeys(ks, d) ==
    IF ks = <<>> THEN <<>>
    ELSE (IF Head(ks) \in DOMAIN d THEN <<Head(ks)>> ELSE <<>>)
         \o SelectKeys(Tail(ks), d)

Items(d) == SelectKeys(KeyOrder, d)

DefaultPrompts ==
    [planner |-> [role |-> <<"Content Planner">>,
                  goal |-> <<"Plan engaging and factually accurate content on the given topic">>,
                  backstory |-> <<"You're working on planning a research report about a given topic.">>],
     writer |-> [role |-> <<"Content Writer">>,
                 goal |-> <<"Write insightful and factually accurate research report">>,
                 backstory |-> <<"You're working on writing a new opinion piece about a given topic.">>],
     editor |-> [role |-> <<"Editor">>,
                 goal |-> <<"Edit a given blog post">>,
                 backstory |-> <<"You are an editor who receives a research article from the Content Writer.">>],
     tasks |-> [plan |-> <<"Plan content for the topic">>,
                write |-> <<"Write a research article based on the content plan">>,
                edit |-> <<"Edit and finalize the research article">>]]

(* an encoder that forgets to escape *)
EscapeNothing(s) == s

(* json string encoding: quote and backslash are escaped with a backslash *)
RECURSIVE Escape(_)
Escape(s) ==
    IF s = <<>> THEN <<>>
    ELSE (IF Head(s) \in {Q, BS} THEN <<BS, Head(s)>> ELSE <<Head(s)>>)
         \o Escape(Tail(s))

DumpStr(s) == <<Q>> \o Escape(s) \o <<Q>>

(* members of the inner dicts: "key": "text", ... *)
RECURSIVE DumpFields(_, _)
DumpFields(d, ks) ==
    IF ks = <<>> THEN <<>>
    ELSE DumpStr(<<Head(ks)>>) \o <<":">> \o DumpStr(d[Head(ks)])
         \o (IF Len(ks) > 1 THEN <<",">> ELSE <<>>)
         \o DumpFields(d, Tail(ks))

DumpInner(d) == <<"{">> \o DumpFields(d, Items(d)) \o <<"}">>

RECURSIVE DumpEntries(_, _)
DumpEntries(p, ks) ==
    IF ks = <<>> THEN <<>>
    ELSE DumpStr(<<Head(ks)>>) \o <<":">> \o DumpInner(p[Head(ks)])
         \o (IF Len(ks) > 1 THEN <<",">> ELSE <<>>)
         \o DumpEntries(p, Tail(ks))

(* json.dump of a PromptSet: a dict of dicts of str *)
Dump(p) == <<"{">> \o DumpEntries(p, Items(p)) \o <<"}">>

ParseFail == [ok |-> FALSE, val |-> <<>>, next |-> 0]

RECURSIVE ScanStr(_, _, _)
ScanStr(t, j, acc) ==
    IF j > Len(t) THEN ParseFail
    ELSE IF t[j] = Q THEN [ok |-> TRUE, val |-> acc, next |-> j + 1]
    ELSE IF t[j] = BS
         THEN IF j + 1 <= Len(t) /\ t[j + 1] \in {Q, BS}
              THEN ScanStr(t, j + 2, Append(acc, t[j + 1]))
              ELSE ParseFail
    ELSE ScanStr(t, j + 1, Append(acc, t[j]))

RECURSIVE ParseValue(_, _)
RECURSIVE ParseMembers(_, _, _)

ParseMembers(t, j, acc) ==
    IF j > Len(t) \/ t[j] # Q THEN ParseFail
    ELSE LET k == ScanStr(t, j + 1, <<>>) IN
         IF ~k.ok \/ Len(k.val) # 1 \/ k.next > Len(t) \/ t[k.next] # ":"
         THEN ParseFail
         ELSE LET v == ParseValue(t, k.next + 1) IN
              IF ~v.ok \/ v.next > Len(t) THEN ParseFail
              ELSE LET acc2 == (k.val[1] :> v.val) @@ acc IN
                   IF t[v.next] = "," THEN ParseMembers(t, v.next + 1, acc2)
                   ELSE IF t[v.next] = "}"
                        THEN [ok |-> TRUE, val |-> acc2, next |-> v.next + 1]
                        ELSE ParseFail

ParseValue(t, i) ==
    IF i > Len(t) THEN ParseFail
    ELSE IF t[i] = Q THEN ScanStr(t, i + 1, <<>>)
    ELSE IF t[i] = "{"
         THEN IF i + 1 <= Len(t) /\ t[i + 1] = "}"
              THEN [ok |-> TRUE, val |-> <<>>, next |-> i + 2]
              ELSE ParseMembers(t, i + 1, <<>>)
    ELSE ParseFail

(* json.load: one value, then end of input *)
Loads(t) ==
    LET r == ParseValue(t, 1) IN
    IF r.ok /\ r.next = Len(t) + 1 THEN r ELSE ParseFail

(***************************************************************************)
(* Config Store, lines 14-23                                               *)
(***************************************************************************)
NoFile == [exists |-> FALSE, data |-> <<>>]
FileOf(t) == [exists |-> TRUE, data |-> t]

(* load_config without its except clause *)
load_config_uncaught(f) ==
    IF ~f.exists THEN [raised |-> "FileNotFoundError", val |-> <<>>]
    ELSE LET r == Loads(f.data) IN
         IF r.ok THEN [raised |-> "none", val |-> r.val]
         ELSE [raised |-> "JSONDecodeError", val |-> <<>>]

load_config(f) ==
    IF ~f.exists THEN [raised |-> "none", val |-> <<>>]
    ELSE LET r == Loads(f.data) IN
         IF r.ok THEN [raised |-> "none", val |-> r.val]
         ELSE [raised |-> "JSONDecodeError", val |-> <<>>]

(* open(path, "w"): creates or truncates; the handle starts at offset 0 *)
OpenW(f) == FileOf(<<>>)

(* write of data at offset pos of a file that other handles also write *)
WriteAt(f, pos, data) ==
    FileOf(SubSeq(f.data, 1, pos) \o data
           \o SubSeq(f.data, pos + Len(data) + 1, Len(f.data)))

Closed == [open |-> FALSE, pos |-> 0, buf |-> <<>>]

(***************************************************************************)
(* Page script, lines 26-76: runs at the start of every interaction        *)
(***************************************************************************)
(* defaults merged under the loaded keys instead of "config or defaults" *)
InitPromptsFilled(config) ==
    [k \in FourKeys |-> IF k \in DOMAIN config THEN config[k]
                        ELSE DefaultPrompts[k]]

(* line 53: config or { ...defaults... } *)
InitPrompts(config) == IF config = <<>> THEN DefaultPrompts ELSE config

NoEdit == [key |-> "", field |-> "", val |-> <<>>]

(* lines 67-76: every rendered widget writes its value back into the dict; *)
(* e is the one widget the user changed, if any *)
ApplyWidgets(p, e) ==
    IF e.key \in DOMAIN p /\ e.field \in DOMAIN p[e.key]
    THEN [p EXCEPT ![e.key][e.field] = e.val]
    ELSE p

(* lines 26-76 for a session whose state is ss, with the user's change e:  *)
(* the new session state and the exception that ended the run, if any      *)
Script(f, ss, e) ==
    LET config == load_config(f) IN
    IF config.raised # "none" THEN [raised |-> config.raised, ss |-> ss]
    ELSE LET p0 == IF "prompts" \in DOMAIN ss THEN ss.prompts
                   ELSE InitPrompts(config.val)
             p1 == ApplyWidgets(p0, e)
         IN  IF "tasks" \in DOMAIN p1
             THEN [raised |-> "none", ss |-> [prompts |-> p1]]
             ELSE [raised |-> "KeyError", ss |-> [prompts |-> p1]]

(***************************************************************************)
(* Display                                                                 *)
(***************************************************************************)
Msg(kind, text) == [kind |-> kind, text |-> text]
Uncaught(type) == <<Msg("exception", type)>>
RanTo(raised) == IF raised = "none" THEN <<>> ELSE Uncaught(raised)

MissingInput == Msg("error", "Please upload a transcript file.")
Saved == Msg("success", "Configuration saved successfully!")
ProbeOK == Msg("success", "API connection successful!")
Generated == Msg("success", "Research article generated successfully!")
ApiError == Msg("error", "API Error")
StatusCode == Msg("error", "Response Status Code")
Content == Msg("error", "Response Content")
PipelineError == Msg("error", "An error occurred")
Traceback == Msg("error", "Traceback")

(***************************************************************************)
(* Exceptions and the except clauses, lines 165-172                        *)
(***************************************************************************)
NoResponse == [present |-> FALSE, status_code |-> 0, text |-> ""]
HTTPError ==
    [type |-> "HTTPError", request_exception |-> TRUE,
     response |-> [present |-> TRUE, status_code |-> 401, text |-> "denied"]]
ConnectionError ==
    [type |-> "ConnectionError", request_exception |-> TRUE,
     response |-> NoResponse]
KeyError ==
    [type |-> "KeyError", request_exception |-> FALSE, response |-> NoResponse]
EngineError ==
    [type |-> "RuntimeError", request_exception |-> FALSE,
     response |-> NoResponse]

(* requests sets e.response on every RequestException, to None by default *)
HasResponseAttr(e) == e.request_exception

(* the two except clauses in the other order: Exception catches everything *)
ExceptGenericFirst(e) == <<PipelineError, Traceback>>

Except(e) ==
    IF e.request_exception
    THEN <<ApiError>>
         \o (IF HasResponseAttr(e)
             THEN IF e.response.present
                  THEN <<StatusCode, Content>>
                  ELSE Uncaught("AttributeError")
             ELSE <<>>)
    ELSE <<PipelineError, Traceback>>

(***************************************************************************)
(* Agents, tasks and crew, lines 107-155                                   *)
(***************************************************************************)
Agent(p, k, temperature) ==
    [role |-> p[k].role, goal |-> p[k].goal, backstory |-> p[k].backstory,
     allow_delegation |-> FALSE, temperature |-> temperature]

Task(description, agent) == [description |-> description, agent |-> agent]

(* a plan task that leaves the transcript out *)
PlanDescriptionBare(plan, transcripts) == plan

(* line 136: f"{plan}: {transcripts}" *)
PlanDescription(plan, transcripts) == plan \o <<": ">> \o transcripts

Constructible(p) ==
    /\ \A i \in 1..Len(AgentKeys) :
          /\ AgentKeys[i] \in DOMAIN p
          /\ \A j \in 1..Len(FieldKeys) : FieldKeys[j] \in DOMAIN p[AgentKeys[i]]
    /\ "tasks" \in DOMAIN p
    /\ \A j \in 1..Len(TaskKeys) : TaskKeys[j] \in DOMAIN p.tasks

BuildCrew(p, transcripts, temperature) ==
    LET planner == Agent(p, "planner", temperature)
        writer == Agent(p, "writer", temperature)
        editor == Agent(p, "editor", temperature)
        plan == Task(PlanDescription(p.tasks.plan, transcripts), planner)
        write == Task(p.tasks.write, writer)
        edit == Task(p.tasks.edit, editor)
    IN  [agents |-> <<planner, writer, editor>>,
         tasks |-> <<plan, write, edit>>]

(***************************************************************************)
(* Inputs                                                                  *)
(***************************************************************************)
NoUpload == [present |-> FALSE, utf8 |-> TRUE, text |-> <<>>]
Uploads ==
    {[present |-> TRUE, utf8 |-> TRUE, text |-> <<"T">>],
     [present |-> TRUE, utf8 |-> FALSE, text |-> <<>>]}

EditInputs ==
    {[key |-> "planner", field |-> "role", val |-> <<"say ", Q, "hi", Q>>],
     [key |-> "editor", field |-> "goal", val |-> <<BS>>],
     [key |-> "tasks", field |-> "plan", val |-> <<>>]}

(* the password field of line 36 and the slider of line 49 (in tenths) *)
Settings ==
    {[api_key |-> "", temperature |-> 0],
     [api_key |-> "key", temperature |-> 7],
     [api_key |-> "key", temperature |-> 10]}
Results == {"ARTICLE", "DRAFT"}

(* files a session can find at start: none, {}, and objects written by hand *)
InitialFiles ==
    {NoFile,
     FileOf(<<"{", "}">>),
     FileOf(Dump([k \in {"writer", "editor", "tasks"} |-> DefaultPrompts[k]])),
     FileOf(Dump([k \in {"planner"} |-> DefaultPrompts[k]]))}

NoLocals == [transcripts |-> <<>>, temperature |-> 0]
NoCrew == [agents |-> <<>>, tasks |-> <<>>]
Pending == [kind |-> "pending", value |-> ""]
Call(name, api_key, c) ==
    [call |-> name, api_key |-> api_key, crew |-> c, reply |-> Pending]

ProbeReplies ==
    {[kind |-> "ok", value |-> ""],
     [kind |-> "raised", value |-> "HTTPError"],
     [kind |-> "raised", value |-> "ConnectionError"]}
KickoffReplies ==
    {[kind |-> "result", value |-> r] : r \in Results}
    \cup {[kind |-> "raised", value |-> t] :
            t \in {"RuntimeError", "HTTPError", "ConnectionError"}}

Exc(t) ==
    CASE t = "HTTPError" -> HTTPError
      [] t = "ConnectionError" -> ConnectionError
      [] t = "KeyError" -> KeyError
      [] OTHER -> EngineError

(***************************************************************************)
(* State machine                                                           *)
(***************************************************************************)
Init ==
    /\ file \in InitialFiles
    /\ session_state = [s \in Sessions |-> <<>>]
    /\ uploaded_file = [s \in Sessions |-> NoUpload]
    /\ handle = [s \in Sessions |-> Closed]
    /\ phase = [s \in Sessions |-> "Idle"]
    /\ locals = [s \in Sessions |-> NoLocals]
    /\ shown = [s \in Sessions |-> <<>>]
    /\ netlog = [s \in Sessions |-> <<>>]
    /\ steps = 0

(* the session's script is inside save_config or waits for a network call *)
Busy(s) == phase[s] \in {"Saving", "ConnectingAPI", "RunningPipeline"}
Rendered(s) == "prompts" \in DOMAIN session_state[s]

(* page load or re-run with no widget changed and no button pressed *)
Rerun(s) ==
    /\ ~Busy(s)
    /\ LET r == Script(file, session_state[s], NoEdit) IN
       /\ session_state' = [session_state EXCEPT ![s] = r.ss]
       /\ shown' = [shown EXCEPT ![s] = RanTo(r.raised)]
    /\ phase' = [phase EXCEPT ![s] = "Idle"]
    /\ netlog' = [netlog EXCEPT ![s] = <<>>]
    /\ UNCHANGED <<file, uploaded_file, handle, locals, steps>>

(* line 32: the user picks or removes a file *)
Upload(s, u) ==
    /\ ~Busy(s) /\ Rendered(s)
    /\ steps < MaxSteps /\ steps' = steps + 1
    /\ u # uploaded_file[s]
    /\ uploaded_file' = [uploaded_file EXCEPT ![s] = u]
    /\ shown' = [shown EXCEPT
                   ![s] = RanTo(Script(file, session_state[s], NoEdit).raised)]
    /\ phase' = [phase EXCEPT ![s] = "Idle"]
    /\ netlog' = [netlog EXCEPT ![s] = <<>>]
    /\ UNCHANGED <<file, session_state, handle, locals>>

(* an edit that also persists the PromptSet *)
EditAutosave(s, e) ==
    /\ ~Busy(s) /\ Rendered(s)
    /\ steps < MaxSteps /\ steps' = steps + 1
    /\ e.key \in DOMAIN session_state[s].prompts
    /\ session_state[s].prompts[e.key][e.field] # e.val
    /\ load_config(file).raised = "none"
    /\ LET r == Script(file, session_state[s], e) IN
       /\ session_state' = [session_state EXCEPT ![s] = r.ss]
       /\ shown' = [shown EXCEPT ![s] = RanTo(r.raised)]
       /\ file' = FileOf(Dump(r.ss.prompts))
    /\ phase' = [phase EXCEPT ![s] = "Idle"]
    /\ netlog' = [netlog EXCEPT ![s] = <<>>]
    /\ UNCHANGED <<uploaded_file, handle, locals>>

(* lines 67-76: the user changes one prompt widget *)
Edit(s, e) ==
    /\ ~Busy(s) /\ Rendered(s)
    /\ steps < MaxSteps /\ steps' = steps + 1
    /\ e.key \in DOMAIN session_state[s].prompts
    /\ session_state[s].prompts[e.key][e.field] # e.val
    /\ load_config(file).raised = "none"
    /\ LET r == Script(file, session_state[s], e) IN
       /\ session_state' = [session_state EXCEPT ![s] = r.ss]
       /\ shown' = [shown EXCEPT ![s] = RanTo(r.raised)]
    /\ phase' = [phase EXCEPT ![s] = "Idle"]
    /\ netlog' = [netlog EXCEPT ![s] = <<>>]
    /\ UNCHANGED <<file, uploaded_file, handle, locals>>

(* lines 26-79: the Save Configuration button is pressed and the run       *)
(* reaches the call of save_config                                         *)
SaveClick(s) ==
    /\ ~Busy(s) /\ Rendered(s)
    /\ steps < MaxSteps /\ steps' = steps + 1
    /\ UNCHANGED <<file, session_state, uploaded_file, handle, locals>>
    /\ Script(file, session_state[s], NoEdit).raised = "none"
    /\ phase' = [phase EXCEPT ![s] = "Saving"]
    /\ shown' = [shown EXCEPT ![s] = <<>>]
    /\ netlog' = [netlog EXCEPT ![s] = <<>>]

(* lines 22-23 up to the end of json.dump: the file is opened for writing  *)
(* and the text is in the buffer of f, or open raises                      *)
SaveOpen(s, writable) ==
    /\ phase[s] = "Saving" /\ ~handle[s].open
    /\ IF writable
       THEN /\ file' = OpenW(file)
            /\ handle' = [handle EXCEPT
                            ![s] = [open |-> TRUE, pos |-> 0,
                                    buf |-> Dump(session_state[s].prompts)]]
            /\ UNCHANGED <<phase, shown>>
       ELSE /\ shown' = [shown EXCEPT ![s] = Uncaught("PermissionError")]
            /\ phase' = [phase EXCEPT ![s] = "Idle"]
            /\ UNCHANGED <<file, handle>>
    /\ UNCHANGED <<session_state, uploaded_file, locals, netlog, steps>>

(* end of the with block of line 22: f is flushed and closed; line 81 *)
SaveFlush(s) ==
    /\ handle[s].open
    /\ file' = WriteAt(file, handle[s].pos, handle[s].buf)
    /\ handle' = [handle EXCEPT ![s] = Closed]
    /\ shown' = [shown EXCEPT ![s] = <<Saved>>]
    /\ phase' = [phase EXCEPT ![s] = "Idle"]
    /\ UNCHANGED <<session_state, uploaded_file, locals, netlog, steps>>

(* a handler that sends the probe without looking at the upload *)
GenerateUnchecked(s, api_key, temperature) ==
    /\ ~Busy(s) /\ Rendered(s)
    /\ steps < MaxSteps /\ steps' = steps + 1
    /\ UNCHANGED <<file, session_state, uploaded_file, handle>>
    /\ Script(file, session_state[s], NoEdit).raised = "none"
    /\ shown' = [shown EXCEPT ![s] = <<>>]
    /\ phase' = [phase EXCEPT ![s] = "ConnectingAPI"]
    /\ netlog' = [netlog EXCEPT ![s] = <<Call("probe", api_key, NoCrew)>>]
    /\ locals' = [locals EXCEPT
                    ![s] = [transcripts |-> uploaded_file[s].text,
                            temperature |-> temperature]]

(* lines 84-102: the button, the input check and the probe request *)
Generate(s, api_key, temperature) ==
    /\ ~Busy(s) /\ Rendered(s)
    /\ steps < MaxSteps /\ steps' = steps + 1
    /\ UNCHANGED <<file, session_state, uploaded_file, handle>>
    /\ Script(file, session_state[s], NoEdit).raised = "none"
    /\ IF ~uploaded_file[s].present
       THEN /\ shown' = [shown EXCEPT ![s] = <<MissingInput>>]
            /\ phase' = [phase EXCEPT ![s] = "Idle"]
            /\ netlog' = [netlog EXCEPT ![s] = <<>>]
            /\ UNCHANGED locals
       ELSE IF ~uploaded_file[s].utf8
       THEN /\ shown' = [shown EXCEPT ![s] = Uncaught("UnicodeDecodeError")]
            /\ phase' = [phase EXCEPT ![s] = "Idle"]
            /\ netlog' = [netlog EXCEPT ![s] = <<>>]
            /\ UNCHANGED locals
       ELSE /\ shown' = [shown EXCEPT ![s] = <<>>]
            /\ phase' = [phase EXCEPT ![s] = "ConnectingAPI"]
            /\ netlog' = [netlog EXCEPT
                            ![s] = <<Call("probe", api_key, NoCrew)>>]
            /\ locals' = [locals EXCEPT
                            ![s] = [transcripts |-> uploaded_file[s].text,
                                    temperature |-> temperature]]

(* a handler that sends the probe again when it fails *)
ProbeReturnRetry(s, reply) ==
    /\ phase[s] = "ConnectingAPI"
    /\ LET p == session_state[s].prompts
           answered == [netlog[s] EXCEPT ![1].reply = reply]
       IN  IF reply.kind = "raised"
           THEN /\ shown' = [shown EXCEPT ![s] = <<>>]
                /\ netlog' = [netlog EXCEPT
                      ![s] = Append(answered,
                                Call("probe", netlog[s][1].api_key, NoCrew))]
                /\ UNCHANGED <<phase, locals>>
           ELSE IF ~Constructible(p)
           THEN /\ shown' = [shown EXCEPT ![s] = <<ProbeOK>> \o Except(KeyError)]
                /\ phase' = [phase EXCEPT ![s] = "Idle"]
                /\ netlog' = [netlog EXCEPT ![s] = answered]
                /\ locals' = [locals EXCEPT ![s] = NoLocals]
           ELSE /\ shown' = [shown EXCEPT ![s] = <<ProbeOK>>]
                /\ phase' = [phase EXCEPT ![s] = "RunningPipeline"]
                /\ netlog' = [netlog EXCEPT
                      ![s] = Append(answered,
                                Call("kickoff", "",
                                     BuildCrew(p, locals[s].transcripts,
                                               locals[s].temperature)))]
                /\ UNCHANGED locals
    /\ UNCHANGED <<file, session_state, uploaded_file, handle, steps>>

(* lines 102-159: the probe answers; on success the crew is built and      *)
(* kicked off                                                              *)
ProbeReturn(s, reply) ==
    /\ phase[s] = "ConnectingAPI"
    /\ LET p == session_state[s].prompts
           answered == [netlog[s] EXCEPT ![1].reply = reply]
       IN  IF reply.kind = "raised"
           THEN /\ shown' = [shown EXCEPT ![s] = Except(Exc(reply.value))]
                /\ phase' = [phase EXCEPT ![s] = "Idle"]
                /\ netlog' = [netlog EXCEPT ![s] = answered]
                /\ locals' = [locals EXCEPT ![s] = NoLocals]
           ELSE IF ~Constructible(p)
           THEN /\ shown' = [shown EXCEPT ![s] = <<ProbeOK>> \o Except(KeyError)]
                /\ phase' = [phase EXCEPT ![s] = "Idle"]
                /\ netlog' = [netlog EXCEPT ![s] = answered]
                /\ locals' = [locals EXCEPT ![s] = NoLocals]
           ELSE /\ shown' = [shown EXCEPT ![s] = <<ProbeOK>>]
                /\ phase' = [phase EXCEPT ![s] = "RunningPipeline"]
                /\ netlog' = [netlog EXCEPT
                      ![s] = Append(answered,
                                Call("kickoff", "",
                                     BuildCrew(p, locals[s].transcripts,
                                               locals[s].temperature)))]
                /\ UNCHANGED locals
    /\ UNCHANGED <<file, session_state, uploaded_file, handle, steps>>

(* lines 159-172: crew.kickoff() returns the article or raises *)
KickoffReturn(s, reply) ==
    /\ phase[s] = "RunningPipeline"
    /\ netlog' = [netlog EXCEPT ![s][2].reply = reply]
    /\ locals' = [locals EXCEPT ![s] = NoLocals]
    /\ IF reply.kind = "result"
       THEN /\ shown' = [shown EXCEPT
                  ![s] = <<ProbeOK, Generated, Msg("markdown", reply.value)>>]
            /\ phase' = [phase EXCEPT ![s] = "Done"]
       ELSE /\ shown' = [shown EXCEPT
                  ![s] = <<ProbeOK>> \o Except(Exc(reply.value))]
            /\ phase' = [phase EXCEPT ![s] = "Idle"]
    /\ UNCHANGED <<file, session_state, uploaded_file, handle, steps>>

Next ==
    \E s \in Sessions :
        \/ Rerun(s)
        \/ \E u \in Uploads \cup {NoUpload} : Upload(s, u)
        \/ \E e \in EditInputs : Edit(s, e)
        \/ SaveClick(s)
        \/ \E writable \in BOOLEAN : SaveOpen(s, writable)
        \/ SaveFlush(s)
        \/ \E x \in Settings : Generate(s, x.api_key, x.temperature)
        \/ \E reply \in ProbeReplies : ProbeReturn(s, reply)
        \/ \E reply \in KickoffReplies : KickoffReturn(s, reply)

Spec == Init /\ [][Next]_vars

(***************************************************************************)
(* Properties                                                              *)
(***************************************************************************)
Prompts(s) == session_state[s].prompts
Starts(s) == ~Rendered(s) /\ Rerun(s) /\ "prompts" \in DOMAIN session_state'[s]
Range(m) == {m[i] : i \in 1..Len(m)}
Failed(m) ==
    \E x \in Range(m) : x.kind \in {"error", "exception"}

(* C1: a Generate with no transcript uploaded issues no outbound call      *)
(* (neither probe nor kickoff), ends at once and shows the missing-input   *)
(* error, whatever the API key, the temperature and the PromptSet are.     *)
C1_NoTranscriptNoCall ==
    [][\A s \in Sessions, x \in Settings :
          (~uploaded_file[s].present /\ Generate(s, x.api_key, x.temperature))
          => /\ netlog' = [netlog EXCEPT ![s] = <<>>]
             /\ phase'[s] = "Idle"
             /\ shown'[s] = <<MissingInput>>]_vars

C1_Witness ==
    \E s \in Sessions :
        /\ shown[s] = <<MissingInput>>
        /\ ~uploaded_file[s].present
        /\ netlog[s] = <<>>

(* C2 as stated: every initialised PromptSet has the four keys planner,    *)
(* writer, editor and tasks, whatever the config file held.                *)
C2_FourKeysAlways ==
    \A s \in Sessions : Rendered(s) => FourKeys \subseteq DOMAIN Prompts(s)

(* C2 amended: at initialisation the PromptSet is the defaults when the    *)
(* config is absent or empty and the loaded object verbatim otherwise, so  *)
(* it has the four keys exactly when the config was absent, empty or had   *)
(* them itself; afterwards no key is ever added or removed.                *)
C2_VerbatimOrDefaults ==
    [][\A s \in Sessions :
          /\ Starts(s) =>
                LET config == load_config(file).val
                    p == session_state'[s].prompts
                IN  /\ p = IF config = <<>> THEN DefaultPrompts ELSE config
                    /\ (FourKeys \subseteq DOMAIN p)
                         <=> (config = <<>> \/ FourKeys \subseteq DOMAIN config)
          /\ Rendered(s) =>
                /\ "prompts" \in DOMAIN session_state'[s]
                /\ DOMAIN session_state'[s].prompts = DOMAIN Prompts(s)]_vars

C2_Witness ==
    \E s \in Sessions :
        /\ Rendered(s)
        /\ "planner" \notin DOMAIN Prompts(s)
        /\ file.exists /\ load_config(file).val = Prompts(s)

C4_NoFileGivesDefaults ==
    [][\A s \in Sessions :
          (~Rendered(s) /\ Rerun(s) /\ ~file.exists)
          => /\ load_config(file) = [raised |-> "none", val |-> <<>>]
             /\ shown'[s] = <<>>
             /\ session_state'[s] = [prompts |-> DefaultPrompts]]_vars

C4_Witness ==
    \E s \in Sessions :
        /\ ~file.exists
        /\ session_state[s] = [prompts |-> DefaultPrompts]
        /\ shown[s] = <<>>

(* C5: a save_config(p) that no other write interrupts leaves a file from  *)
(* which load_config returns p, and a session that starts on the file of a *)
(* well-formed p uses p verbatim.                                          *)
C5_SaveLoadRoundTrip ==
    [][\A s \in Sessions :
          /\ (SaveFlush(s) /\ file.data = <<>>)
             => load_config(file') = [raised |-> "none", val |-> Prompts(s)]
          /\ \A t \in Sessions :
                ( /\ ~Rendered(s) /\ Rerun(s)
                  /\ Rendered(t) /\ Constructible(Prompts(t))
                  /\ file = FileOf(Dump(Prompts(t))) )
                => session_state'[s] = [prompts |-> Prompts(t)]]_vars

C5_Witness ==
    \E s, t \in Sessions :
        /\ s # t /\ Rendered(s) /\ Rendered(t)
        /\ Constructible(Prompts(t))
        /\ Q \in Range(Prompts(t).planner.role)
        /\ Prompts(s) = Prompts(t)
        /\ file = FileOf(Dump(Prompts(t)))
        /\ shown[t] = <<Saved>>

(* C6: one invocation runs Idle -> (input check) -> ConnectingAPI ->       *)
(* RunningPipeline -> Done: the probe is sent at most once and only for a  *)
(* decodable upload, the crew is kicked off at most once and only after    *)
(* the probe of the same invocation succeeded, and a step that reports a   *)
(* failure ends in Idle.                                                   *)
InvocationMoves ==
    {<<"Idle", "ConnectingAPI">>, <<"Done", "ConnectingAPI">>,
     <<"ConnectingAPI", "Idle">>, <<"ConnectingAPI", "RunningPipeline">>,
     <<"RunningPipeline", "Idle">>, <<"RunningPipeline", "Done">>,
     <<"Done", "Idle">>, <<"Idle", "Saving">>, <<"Done", "Saving">>,
     <<"Saving", "Idle">>}

C6_CallsInOrder(s) ==
    LET n == netlog[s] IN
    /\ Len(n) <= 2
    /\ Len(n) >= 1 =>
          /\ n[1].call = "probe"
          /\ uploaded_file[s].present /\ uploaded_file[s].utf8
    /\ Len(n) = 2 => n[1].reply.kind = "ok" /\ n[2].call = "kickoff"
    /\ phase[s] = "ConnectingAPI" => Len(n) = 1 /\ n[1].reply = Pending
    /\ phase[s] = "RunningPipeline" => Len(n) = 2 /\ n[2].reply = Pending
    /\ phase[s] = "Done" => Len(n) = 2 /\ n[2].reply.kind = "result"

C6_InvocationStateMachine ==
    /\ [](\A s \in Sessions : C6_CallsInOrder(s))
    /\ [][\A s \in Sessions :
            /\ phase'[s] # phase[s] => <<phase[s], phase'[s]>> \in InvocationMoves
            /\ (shown'[s] # shown[s] /\ Failed(shown'[s])) => phase'[s] = "Idle"
            /\ (netlog'[s] # netlog[s] /\ netlog'[s] # <<>>)
                 => \/ Len(netlog'[s]) = Len(netlog[s])
                    \/ ~Busy(s) /\ Len(netlog'[s]) = 1
                    \/ phase[s] = "ConnectingAPI" /\ Len(netlog'[s]) = 2]_vars

C6_Witness ==
    \E s \in Sessions :
        /\ phase[s] = "Done"
        /\ netlog[s][1].reply.kind = "ok"
        /\ netlog[s][2].reply.kind = "result"

(* C7: whenever the probe fails, with or without an HTTP response, the     *)
(* page shows the API error with the status code and the response body,    *)
(* the handler raises nothing and the crew is not kicked off.              *)
C7_ProbeFailureReported ==
    [][\A s \in Sessions, reply \in ProbeReplies :
          (ProbeReturn(s, reply) /\ reply.kind = "raised")
          => /\ shown'[s] = <<ApiError, StatusCode, Content>>
             /\ phase'[s] = "Idle"
             /\ Len(netlog'[s]) = 1]_vars

(* C8 as stated: an API error is shown only when the probe failed, and     *)
(* every exception raised while building or running the crew is shown as   *)
(* a pipeline error with message and trace.                                *)
C8_ClassifiedByPhase ==
    [][\A s \in Sessions :
          /\ (shown'[s] # shown[s] /\ ApiError \in Range(shown'[s]))
             => phase[s] = "ConnectingAPI"
          /\ \A reply \in KickoffReplies :
                (KickoffReturn(s, reply) /\ reply.kind = "raised")
                => shown'[s] = <<ProbeOK, PipelineError, Traceback>>]_vars

(* C8 amended: the report follows the type of the exception, wherever in   *)
(* the try block it is raised: a RequestException from the probe or from   *)
(* inside the crew's run is shown as an API error, every other exception   *)
(* from building or running the crew as a pipeline error with message and  *)
(* trace.                                                                  *)
C8_Report(before, e, m) ==
    /\ Len(m) >= Len(before) + 1
    /\ SubSeq(m, 1, Len(before)) = before
    /\ IF e.request_exception
       THEN m[Len(before) + 1] = ApiError /\ PipelineError \notin Range(m)
       ELSE m = before \o <<PipelineError, Traceback>>

C8_ClassifiedByType ==
    [][\A s \in Sessions :
          /\ \A reply \in ProbeReplies :
                ProbeReturn(s, reply) =>
                   IF reply.kind = "raised"
                   THEN C8_Report(<<>>, Exc(reply.value), shown'[s])
                   ELSE IF Constructible(Prompts(s))
                   THEN shown'[s] = <<ProbeOK>>
                   ELSE C8_Report(<<ProbeOK>>, KeyError, shown'[s])
          /\ \A reply \in KickoffReplies :
                (KickoffReturn(s, reply) /\ reply.kind = "raised")
                => C8_Report(<<ProbeOK>>, Exc(reply.value), shown'[s])]_vars

C8_Witness ==
    \E s \in Sessions :
        /\ Len(netlog[s]) = 2
        /\ netlog[s][2].reply = [kind |-> "raised", value |-> "HTTPError"]
        /\ shown[s] = <<ProbeOK, ApiError, StatusCode, Content>>

(* C9: a step that changes the file is the open or the flush of            *)
(* save_config and is no load, upload, edit or button press; a step that   *)
(* changes the file or a PromptSet is no step of an invocation, whatever   *)
(* the invocation's outcome.                                               *)
C9_OnlySaveWrites ==
    [][/\ file' # file =>
            /\ \E s \in Sessions : SaveFlush(s) \/ SaveOpen(s, TRUE)
            /\ ~ \E s \in Sessions :
                    \/ Rerun(s)
                    \/ \E u \in Uploads \cup {NoUpload} : Upload(s, u)
                    \/ \E e \in EditInputs : Edit(s, e)
                    \/ SaveClick(s)
       /\ (file' # file \/ session_state' # session_state) =>
            ~ \E s \in Sessions :
                 \/ \E x \in Settings : Generate(s, x.api_key, x.temperature)
                 \/ \E reply \in ProbeReplies : ProbeReturn(s, reply)
                 \/ \E reply \in KickoffReplies : KickoffReturn(s, reply)]_vars

C9_Witness ==
    \E s \in Sessions :
        /\ Rendered(s) /\ Constructible(Prompts(s))
        /\ Prompts(s) # DefaultPrompts
        /\ ~file.exists
        /\ Failed(shown[s]) /\ Len(netlog[s]) >= 1

(* C10: a finished invocation has submitted the tasks plan, write, edit in *)
(* this order, bound to the planner, writer and editor agents built from   *)
(* the PromptSet; the plan description is the plan text, ": " and the      *)
(* whole transcript, the other two are the configured texts; the page      *)
(* shows what the engine returned.                                         *)
C10_CrewAndResult ==
    \A s \in Sessions :
        phase[s] = "Done" =>
            LET p == Prompts(s)
                T == uploaded_file[s].text
                c == netlog[s][2].crew
                R == netlog[s][2].reply.value
            IN  /\ Len(c.tasks) = 3 /\ Len(c.agents) = 3
                /\ \A i \in 1..3 :
                      /\ c.agents[i].role = p[AgentKeys[i]].role
                      /\ c.agents[i].goal = p[AgentKeys[i]].goal
                      /\ c.agents[i].backstory = p[AgentKeys[i]].backstory
                      /\ c.tasks[i].agent = c.agents[i]
                /\ c.tasks[1].description = p.tasks.plan \o <<": ">> \o T
                /\ c.tasks[2].description = p.tasks.write
                /\ c.tasks[3].description = p.tasks.edit
                /\ shown[s][Len(shown[s])] = Msg("markdown", R)

C10_Witness ==
    \E s \in Sessions :
        /\ phase[s] = "Done"
        /\ uploaded_file[s].text = <<"T">>
        /\ netlog[s][2].crew.tasks[1].description
             = <<"Plan content for the topic", ": ", "T">>
        /\ shown[s][3] = Msg("markdown", "ARTICLE")

====
